---- MODULE Spec2Model ----
(***************************************************************************)
(* Model of sync-qdrant.js: one run of syncRepository() per process, the   *)
(* remote Qdrant collection, the embedding provider and the scanned file   *)
(* tree.  Every await of the script is one step of the model, so that the  *)
(* order of the remote calls is visible in the per-run call log.           *)
(***************************************************************************)
EXTENDS Integers, Sequences, FiniteSets, TLC

\* ------------------------------------------------------------------ bounds
MaxFiles == 2      \* paths 1..MaxFiles, in readdir order
MaxRuns  == 2      \* runs of the script launched one after another (SpecRerun)
NumProcs == 2      \* process slots (slot 1; a concurrent run takes slot 2)

\* ------------------------------------------------------- program constants
BATCH_SIZE  == 100     \* const BATCH_SIZE = 100
VECTOR_SIZE == 1536    \* createCollection(..., { vectors: { size: 1536 } })

Procs == 1..NumProcs
Paths == 1..MaxFiles

\* A file's content is named by the number of chunks the splitter cuts it into.
Contents == {BATCH_SIZE, BATCH_SIZE + 1}
\* Dimensions the provider may answer with (EMBEDDING_MODEL is configurable).
Dims == {VECTOR_SIZE, 2 * VECTOR_SIZE}

Absent     == [present |-> FALSE, readable |-> FALSE, content |-> 0]
Unreadable == [present |-> TRUE,  readable |-> FALSE, content |-> 0]
FileStates == {Absent, Unreadable}
                \cup {[present |-> TRUE, readable |-> TRUE, content |-> c] : c \in Contents}
Trees == [Paths -> FileStates]

Min(a, b) == IF a < b THEN a ELSE b

VARIABLES
    tree,             \* the repository: path -> file state
    collection,       \* the remote collection COLLECTION_NAME: [exists, points]
    proc,             \* per process: the state of its run of syncRepository()
    run,              \* number of runs launched so far
    startCollection,  \* the collection when the latest run was launched
    startTree,        \* the tree when the latest run was launched
    prevRun           \* the run before the latest one: its tree, how it ended

vars == <<tree, collection, proc, run, startCollection, startTree, prevRun>>

\* ------------------------------------------------------------ pure helpers

\* textSplitter.splitText(content): the chunk texts of a content, in order.
SplitText(content) == [k \in 1..content |-> [content |-> content, part |-> k - 1]]

\* readFileContent(filePath): null (FALSE here) when the read throws.
ReadFileContentErrorText(path) ==
    [ok |-> TRUE, path |-> path,
     content |-> IF tree[path].readable THEN tree[path].content ELSE 1]
ReadFileContent(path) ==
    IF tree[path].readable
      THEN [ok |-> TRUE, path |-> path, content |-> tree[path].content]
      ELSE [ok |-> FALSE, path |-> path, content |-> 0]

\* processFile(fileData): the documents of one file.
ProcessFileOneBased(fileData) ==
    IF ~fileData.ok THEN << >>
    ELSE LET texts == SplitText(fileData.content)
         IN  [k \in 1..Len(texts) |->
                [pageContent |-> texts[k],
                 metadata |-> [path |-> fileData.path,
                               chunk |-> k,
                               totalChunks |-> Len(texts)]]]
ProcessFile(fileData) ==
    IF ~fileData.ok THEN << >>
    ELSE LET texts == SplitText(fileData.content)
         IN  [k \in 1..Len(texts) |->
                [pageContent |-> texts[k],
                 metadata |-> [path |-> fileData.path,
                               chunk |-> k - 1,
                               totalChunks |-> Len(texts)]]]

\* getFiles(repoPath): the included files, in readdir order.
RECURSIVE GetFilesFrom(_, _)
GetFilesFrom(t, p) ==
    IF p > MaxFiles THEN << >>
    ELSE (IF t[p].present THEN <<p>> ELSE << >>) \o GetFilesFrom(t, p + 1)
GetFiles(t) == GetFilesFrom(t, 1)

\* embeddings.embedDocuments(texts) answering with vectors of dimension dim.
EmbedDocuments(texts, dim) == [k \in 1..Len(texts) |-> [dim |-> dim, of |-> texts[k]]]

\* let count = 0
StartCountPerProcess == run
StartCount == 0

\* id: count + idx
PointIdIdxOnly(count, idx) == idx
PointId(count, idx) == count + idx

\* documents.slice(i, i + BATCH_SIZE)
BatchOverlap(documents, i) ==
    SubSeq(documents, i + 1, Min(i + BATCH_SIZE + 1, Len(documents)))
Batch(documents, i) == SubSeq(documents, i + 1, Min(i + BATCH_SIZE, Len(documents)))

\* batch.map((doc, idx) => ({ id, vector, payload }))
Points(batch, embeddingResults, count) ==
    { [id |-> PointId(count, k - 1),
       vector |-> embeddingResults[k],
       payload |-> [text |-> batch[k].pageContent, metadata |-> batch[k].metadata]]
      : k \in 1..Len(batch) }

\* The store's upsert: a point replaces the stored point of the same id.
UpsertPoints(points, new) ==
    {q \in points : \A n \in new : n.id # q.id} \cup new

\* The store rejects a vector whose size is not the collection's.
Accepts(points) == \A n \in points : n.vector.dim = VECTOR_SIZE

\* ------------------------------------------------------------------- state

IdleProc ==
    [pc |-> "idle", DRY_RUN |-> FALSE, OPENAI_API_KEY |-> FALSE,
     QDRANT_API_KEY |-> FALSE, calls |-> << >>, collectionExists |-> FALSE,
     files |-> << >>, fileIdx |-> 0, allDocuments |-> << >>, i |-> 0, count |-> 0,
     embeddingResults |-> << >>, exitCode |-> -1, logged |-> {}]

\* Points left in the collection by something earlier than the first run.
OldPoints ==
    { [id |-> n,
       vector |-> [dim |-> VECTOR_SIZE, of |-> [content |-> 0, part |-> n]],
       payload |-> [text |-> [content |-> 0, part |-> n],
                    metadata |-> [path |-> 0, chunk |-> 0, totalChunks |-> 1]]]
      : n \in {0, 3 * BATCH_SIZE * MaxFiles} }

InitCollections ==
    { [exists |-> FALSE, points |-> {}],
      [exists |-> TRUE,  points |-> {}],
      [exists |-> TRUE,  points |-> OldPoints] }

Init ==
    /\ tree \in Trees
    /\ collection \in InitCollections
    /\ proc = [p \in Procs |-> IdleProc]
    /\ run = 0
    /\ startCollection = collection
    /\ startTree = tree
    /\ prevRun = [ran |-> FALSE, clean |-> FALSE, tree |-> tree]

Call(op, batch, ok, dim) == [op |-> op, batch |-> batch, ok |-> ok, dim |-> dim]

Running(p) == proc[p].pc \notin {"idle", "exited"}

\* process.exit(code), or the script running off its end (code 0)
Exit(s, code, tag) == [s EXCEPT !.pc = "exited", !.exitCode = code, !.logged = @ \cup {tag}]

Set(p, s) == proc' = [proc EXCEPT ![p] = s]

\* A run that was not a dry run, uploaded every batch and exited with 0.
Clean(s) ==
    /\ s.pc = "exited"
    /\ ~s.DRY_RUN
    /\ s.exitCode = 0
    /\ "uploadCompleted" \in s.logged

\* A run after which the operator goes on to the next one: a dry run that ran
\* to its end, or a clean run.
Succeeded(s) ==
    /\ s.pc = "exited"
    /\ s.exitCode = 0
    /\ "uploadError" \notin s.logged

\* -------------------------------------------------- decisions of the script

\* checkRequiredAPIKeys: if (!OPENAI_API_KEY) ... if (!QDRANT_API_KEY) ...
KeysMissingOpenAIOnly(s) == ~s.OPENAI_API_KEY
KeysMissing(s) == ~s.OPENAI_API_KEY \/ ~s.QDRANT_API_KEY

\* resetCollection: if (DRY_RUN) { ...; return; }
ResetNeverDry(s) == FALSE
ResetIsDry(s) == s.DRY_RUN

\* uploadToQdrant: if (DRY_RUN) { ...; return; }
UploadIsDry(s) == s.DRY_RUN

\* resetCollection: if (collectionExists) { await deleteCollection }
DeleteIfAbsent(collectionExists) == ~collectionExists
ShouldDelete(collectionExists) == collectionExists

\* uploadToQdrant: nothing stands between embedDocuments and upsert.
AfterEmbedNoUpsert(dim) == "embed"
AfterEmbed(dim) == "upsert"

\* uploadToQdrant: the try block holds the whole loop, so the catch leaves it.
UploadErrorRetry == "embed"
UploadErrorPc == "syncEnd"

\* resetCollection: catch (error) { console.error(...); process.exit(1); }
ResetErrorLogOnly(s) == [s EXCEPT !.pc = "scan", !.logged = @ \cup {"resetError"}]
ResetError(s) == Exit(s, 1, "resetError")

\* uploadToQdrant: for (let i = 0; i < documents.length; i += BATCH_SIZE)
LoopTestInclusive(documents, i) == i <= Len(documents)
LoopTest(documents, i) == i < Len(documents)
LoopStepDouble(i) == i + 2 * BATCH_SIZE
LoopStep(i) == i + BATCH_SIZE

\* uploadToQdrant: count += batch.length
NextCountFullBatch(count, batch) == count + BATCH_SIZE
NextCount(count, batch) == count + Len(batch)

\* ----------------------------------------------------------------- actions

\* node sync-qdrant.js [--dry-run]: a new process with its argv and its
\* environment, in slot p.
Launch(p) ==
    /\ \E d, openai, qdrant \in BOOLEAN :
         Set(p, [IdleProc EXCEPT !.pc = "checkKeys", !.DRY_RUN = d,
                                 !.OPENAI_API_KEY = openai,
                                 !.QDRANT_API_KEY = qdrant])
    /\ run' = run + 1
    /\ startCollection' = collection
    /\ startTree' = tree
    /\ prevRun' = IF run = 0 THEN prevRun
                  ELSE [ran |-> TRUE, clean |-> Clean(proc[p]), tree |-> startTree]
    /\ UNCHANGED <<tree, collection>>

\* The script is started.
StartRun(p) ==
    /\ p = 1
    /\ run = 0
    /\ Launch(p)

\* The script is started again, in the same slot, after a run that succeeded.
Rerun(p) ==
    /\ p = 1
    /\ run >= 1
    /\ run < MaxRuns
    /\ \A q \in Procs : ~Running(q)
    /\ Succeeded(proc[p])
    /\ Launch(p)

\* The script is started a second time, as a full rebuild, while a full
\* rebuild is still running: nothing in the script looks for another run.
LaunchConcurrent(p) ==
    /\ p = 2
    /\ run >= 1
    /\ run < MaxRuns
    /\ proc[p].pc = "idle"
    /\ \E q \in Procs :
         /\ Running(q)
         /\ ~proc[q].DRY_RUN
         /\ ~KeysMissing(proc[q])
    /\ Set(p, [IdleProc EXCEPT !.pc = "checkKeys", !.DRY_RUN = FALSE,
                               !.OPENAI_API_KEY = TRUE,
                               !.QDRANT_API_KEY = TRUE])
    /\ run' = run + 1
    /\ UNCHANGED <<tree, collection, startCollection, startTree, prevRun>>

\* After a clean run somebody adds, removes or rewrites one file.
ChangeTree ==
    /\ run >= 1
    /\ run < MaxRuns
    /\ \A q \in Procs : ~Running(q)
    /\ Clean(proc[1])
    /\ tree = startTree
    /\ \E path \in Paths, f \in FileStates :
         /\ f # tree[path]
         /\ tree' = [tree EXCEPT ![path] = f]
    /\ UNCHANGED <<collection, proc, run, startCollection, startTree, prevRun>>

\* checkRequiredAPIKeys()
CheckRequiredAPIKeys(p) ==
    /\ proc[p].pc = "checkKeys"
    /\ Set(p, IF KeysMissing(proc[p]) THEN Exit(proc[p], 1, "keyError")
              ELSE [proc[p] EXCEPT !.pc = "reset"])
    /\ UNCHANGED <<tree, collection, run, startCollection, startTree, prevRun>>

\* resetCollection() in a dry run: three log lines and return
ResetCollectionDryRun(p) ==
    /\ proc[p].pc = "reset"
    /\ ResetIsDry(proc[p])
    /\ Set(p, [proc[p] EXCEPT !.pc = "scan", !.logged = @ \cup {"wouldReset"}])
    /\ UNCHANGED <<tree, collection, run, startCollection, startTree, prevRun>>

\* resetCollection(): await qdrantClient.getCollections()
GetCollections(p) ==
    /\ proc[p].pc = "reset"
    /\ ~ResetIsDry(proc[p])
    /\ \E ok \in BOOLEAN :
         LET s == [proc[p] EXCEPT !.calls = Append(@, Call("list", 0, ok, 0))]
         IN  Set(p, IF ok
                      THEN [s EXCEPT !.collectionExists = collection.exists,
                                     !.pc = IF ShouldDelete(collection.exists)
                                              THEN "delete" ELSE "create"]
                      ELSE ResetError(s))
    /\ UNCHANGED <<tree, collection, run, startCollection, startTree, prevRun>>

\* resetCollection(): await qdrantClient.deleteCollection(COLLECTION_NAME)
DeleteCollection(p) ==
    /\ proc[p].pc = "delete"
    /\ \E ok \in BOOLEAN :
         LET s == [proc[p] EXCEPT !.calls = Append(@, Call("delete", 0, ok, 0))]
         IN  /\ Set(p, IF ok THEN [s EXCEPT !.pc = "create"]
                       ELSE ResetError(s))
             /\ collection' = IF ok THEN [exists |-> FALSE, points |-> {}]
                              ELSE collection
    /\ UNCHANGED <<tree, run, startCollection, startTree, prevRun>>

\* resetCollection(): await qdrantClient.createCollection(COLLECTION_NAME, ...)
\* The store refuses to create a collection that exists.
CreateCollection(p) ==
    /\ proc[p].pc = "create"
    /\ \E answered \in BOOLEAN :
         LET ok == answered /\ ~collection.exists
             s  == [proc[p] EXCEPT !.calls = Append(@, Call("create", 0, ok, 0))]
         IN  /\ Set(p, IF ok THEN [s EXCEPT !.pc = "scan"]
                       ELSE ResetError(s))
             /\ collection' = IF ok THEN [exists |-> TRUE, points |-> {}]
                              ELSE collection
    /\ UNCHANGED <<tree, run, startCollection, startTree, prevRun>>

\* syncRepository(): const files = await getFiles(repoPath); a throw of
\* readdir or stat reaches the catch of syncRepository.
ScanRepository(p) ==
    /\ proc[p].pc = "scan"
    /\ \E ok \in BOOLEAN :
         Set(p, IF ok
                  THEN [proc[p] EXCEPT !.files = GetFiles(tree),
                                       !.pc = IF GetFiles(tree) = << >>
                                                THEN "upload" ELSE "read"]
                  ELSE Exit(proc[p], 1, "syncError"))
    /\ UNCHANGED <<tree, collection, run, startCollection, startTree, prevRun>>

\* syncRepository(): one turn of  for (const file of files) { ... }
ReadAndProcessFile(p) ==
    /\ proc[p].pc = "read"
    /\ LET s    == proc[p]
           file == s.files[s.fileIdx + 1]
           documents == ProcessFile(ReadFileContent(file))
       IN  Set(p, [s EXCEPT !.allDocuments = @ \o documents,
                            !.fileIdx = @ + 1,
                            !.pc = IF s.fileIdx + 1 < Len(s.files)
                                     THEN "read" ELSE "upload"])
    /\ UNCHANGED <<tree, collection, run, startCollection, startTree, prevRun>>

\* uploadToQdrant(documents) up to the first test of the loop
UploadStart(p) ==
    /\ proc[p].pc = "upload"
    /\ LET s == proc[p]
       IN  Set(p, IF UploadIsDry(s)
                    THEN [s EXCEPT !.pc = "syncEnd", !.logged = @ \cup {"wouldUpload"}]
                    ELSE IF LoopTest(s.allDocuments, 0)
                      THEN [s EXCEPT !.count = StartCount, !.i = 0, !.pc = "embed"]
                      ELSE [s EXCEPT !.count = StartCount, !.i = 0, !.pc = "syncEnd",
                                     !.logged = @ \cup {"uploadCompleted"}])
    /\ UNCHANGED <<tree, collection, run, startCollection, startTree, prevRun>>

\* uploadToQdrant(): await embeddings.embedDocuments(texts)
EmbedBatch(p) ==
    /\ proc[p].pc = "embed"
    /\ LET s     == proc[p]
           batch == Batch(s.allDocuments, s.i)
           texts == [k \in 1..Len(batch) |-> batch[k].pageContent]
           k     == s.i \div BATCH_SIZE
       IN  \/ \E dim \in Dims :
                Set(p, [s EXCEPT !.calls = Append(@, Call("embed", k, TRUE, dim)),
                                 !.embeddingResults = EmbedDocuments(texts, dim),
                                 !.pc = AfterEmbed(dim)])
           \/ Set(p, [s EXCEPT !.calls = Append(@, Call("embed", k, FALSE, 0)),
                               !.logged = @ \cup {"uploadError"},
                               !.pc = UploadErrorPc])
    /\ UNCHANGED <<tree, collection, run, startCollection, startTree, prevRun>>

\* uploadToQdrant(): await qdrantClient.upsert(COLLECTION_NAME, { points })
\* and the rest of the turn of the loop.
UpsertBatch(p) ==
    /\ proc[p].pc = "upsert"
    /\ \E answered \in BOOLEAN :
         LET s      == proc[p]
             batch  == Batch(s.allDocuments, s.i)
             points == Points(batch, s.embeddingResults, s.count)
             k      == s.i \div BATCH_SIZE
             ok     == answered /\ collection.exists /\ Accepts(points)
             t      == [s EXCEPT !.calls = Append(@, Call("upsert", k, ok, 0)),
                                 !.embeddingResults = << >>]
         IN  /\ Set(p, IF ok
                         THEN IF LoopTest(s.allDocuments, LoopStep(s.i))
                                THEN [t EXCEPT !.count = NextCount(@, batch),
                                               !.i = LoopStep(@),
                                               !.pc = "embed"]
                                ELSE [t EXCEPT !.count = NextCount(@, batch),
                                               !.i = LoopStep(@),
                                               !.pc = "syncEnd",
                                               !.logged = @ \cup {"uploadCompleted"}]
                         ELSE [t EXCEPT !.logged = @ \cup {"uploadError"},
                                        !.pc = UploadErrorPc])
             /\ collection' = IF ok
                                THEN [collection EXCEPT !.points = UpsertPoints(@, points)]
                                ELSE collection
    /\ UNCHANGED <<tree, run, startCollection, startTree, prevRun>>

\* syncRepository(): the last log line; the script runs off its end.
SyncEnd(p) ==
    /\ proc[p].pc = "syncEnd"
    /\ Set(p, Exit(proc[p], 0,
                   IF proc[p].DRY_RUN THEN "simulationCompleted" ELSE "syncCompleted"))
    /\ UNCHANGED <<tree, collection, run, startCollection, startTree, prevRun>>

\* One run of the script.
Next ==
    \E p \in Procs :
        \/ StartRun(p)
        \/ CheckRequiredAPIKeys(p)
        \/ ResetCollectionDryRun(p)
        \/ GetCollections(p)
        \/ DeleteCollection(p)
        \/ CreateCollection(p)
        \/ ScanRepository(p)
        \/ ReadAndProcessFile(p)
        \/ UploadStart(p)
        \/ EmbedBatch(p)
        \/ UpsertBatch(p)
        \/ SyncEnd(p)

Spec == Init /\ [][Next]_vars

\* One run in which every step that can be taken is taken in the end: the
\* event loop resumes the script whenever the promise it awaits has settled,
\* and every remote call returns or fails.
SpecLive == Spec /\ WF_vars(Next)

\* Up to MaxRuns runs of the script one after another, the tree changing in
\* between.
NextRerun ==
    \/ Next
    \/ ChangeTree
    \/ \E p \in Procs : Rerun(p)

SpecRerun == Init /\ [][NextRerun]_vars

\* Two runs of the script at the same time against the same collection.
NextConc ==
    \/ Next
    \/ \E p \in Procs : LaunchConcurrent(p)

\* The two runs scan a repository whose files are all there and readable,
\* and find the collection an earlier sync has left.
InitConc ==
    /\ Init
    /\ \A path \in Paths : tree[path].readable
    /\ collection = [exists |-> TRUE, points |-> OldPoints]

SpecConc == InitConc /\ [][NextConc]_vars

\* ------------------------------------------------- reading the call log

Mutating == {"delete", "create", "upsert"}
Upload   == {"embed", "upsert"}

CallsOf(s, ops) == {j \in 1..Len(s.calls) : s.calls[j].op \in ops}
FailedUploads(s) == {j \in CallsOf(s, Upload) : ~s.calls[j].ok}

\* The non-dry run has come out of resetCollection() without an error.
ResetSucceeded(s) ==
    /\ ~s.DRY_RUN
    /\ \E j \in CallsOf(s, {"create"}) : s.calls[j].ok

\* What a reader of the collection sees of a point, the vector aside.
View(pt) ==
    [id |-> pt.id, text |-> pt.payload.text, path |-> pt.payload.metadata.path,
     chunk |-> pt.payload.metadata.chunk,
     totalChunks |-> pt.payload.metadata.totalChunks]
Views(points) == {View(pt) : pt \in points}

\* Number of chunks of the readable files that the scan meets before path.
RECURSIVE ChunksBefore(_, _)
ChunksBefore(t, path) ==
    IF path <= 1 THEN 0
    ELSE ChunksBefore(t, path - 1)
           + (IF t[path - 1].readable THEN t[path - 1].content ELSE 0)

\* ------------------------------------------------------------------ claims

\* C1: a run started with --dry-run issues no collection-delete, no
\* collection-create and no point-upsert call, and the remote collection stays
\* what it was when the run was launched.
C1_DryRunMutatesNothing ==
    \A p \in Procs :
        proc[p].DRY_RUN =>
            /\ CallsOf(proc[p], Mutating) = {}
            /\ collection = startCollection

\* C1 witness: a dry run over more than one batch of chunks has run to its end
\* against a collection that holds points.
C1_Witness ==
    \E p \in Procs :
        /\ proc[p].DRY_RUN
        /\ proc[p].pc = "exited"
        /\ proc[p].exitCode = 0
        /\ Len(proc[p].allDocuments) > BATCH_SIZE
        /\ collection.points # {}

\* C2: a run in which an embedding call or an upsert call failed exits with a
\* non-zero code and does not report that the sync completed successfully.
C2_FailedUploadExitsNonZero ==
    \A p \in Procs :
        (proc[p].pc = "exited" /\ FailedUploads(proc[p]) # {}) =>
            /\ proc[p].exitCode # 0
            /\ "syncCompleted" \notin proc[p].logged

C4_ResetDeletesThenCreates ==
    \A p \in Procs :
        ResetSucceeded(proc[p]) =>
            LET s       == proc[p]
                deletes == CallsOf(s, {"delete"})
                creates == CallsOf(s, {"create"})
            IN  /\ (deletes # {}) <=> startCollection.exists
                /\ Cardinality(deletes) <= 1
                /\ Cardinality(creates) = 1
                /\ \A d \in deletes, c \in creates : d < c /\ s.calls[d].ok
                /\ s.pc = "scan" => collection = [exists |-> TRUE, points |-> {}]
                /\ CallsOf(s, {"upsert"}) = {} => collection.points = {}

\* C4 witness: the reset of a non-dry run has just finished on a collection
\* that held points when the run was launched.
C4_Witness ==
    \E p \in Procs :
        /\ ResetSucceeded(proc[p])
        /\ proc[p].pc = "scan"
        /\ startCollection.points # {}

\* C5: no collection-delete call of a run precedes an embedding call of the
\* same run (the collection is cleared only after scanning, chunking and
\* embedding).
C5_NoDeleteBeforeEmbedding ==
    \A p \in Procs :
        \A d \in CallsOf(proc[p], {"delete"}), e \in CallsOf(proc[p], {"embed"}) :
            e < d

\* C6: a clean run that follows a clean run on the same tree leaves the same
\* number of points and the same (id, text, path, chunk, totalChunks) for every
\* point as the run before it left.
C6_RerunLeavesSamePoints ==
    \A p \in Procs :
        (Clean(proc[p]) /\ prevRun.clean /\ prevRun.tree = startTree) =>
            /\ Views(collection.points) = Views(startCollection.points)
            /\ Cardinality(collection.points) = Cardinality(startCollection.points)

\* C6 witness: the second of two clean runs over an unchanged tree of more
\* than one batch has ended.
C6_Witness ==
    \E p \in Procs :
        /\ Clean(proc[p])
        /\ prevRun.clean
        /\ prevRun.tree = startTree
        /\ Cardinality(collection.points) > BATCH_SIZE

\* Two points, of this run and of the run before, of the same path and chunk.
SameChunk(a, b) ==
    /\ a.payload.metadata.path = b.payload.metadata.path
    /\ a.payload.metadata.chunk = b.payload.metadata.chunk

\* C7 as claimed: a chunk of the same path and chunk index has the same id in
\* two clean runs, whatever happened to the other files in between.
C7_IdFromPathAndChunkAlone ==
    \A p \in Procs :
        (Clean(proc[p]) /\ prevRun.clean) =>
            \A a \in collection.points, b \in startCollection.points :
                SameChunk(a, b) => a.id = b.id

\* C7 as amended: the id of a point is the position of its chunk in the run's
\* whole chunk list, that is the number of chunks of the files scanned before
\* its file plus its chunk index; so a chunk of the same path and chunk index
\* has the same id in two clean runs iff the files scanned before it yield the
\* same number of chunks in both.
C7_IdIsPositionInChunkList ==
    LET now    == [q \in Paths |-> ChunksBefore(startTree, q)]
        before == [q \in Paths |-> ChunksBefore(prevRun.tree, q)]
        Key(a) == <<a.payload.metadata.path, a.payload.metadata.chunk>>
    IN  \A p \in Procs :
        /\ ResetSucceeded(proc[p]) =>
             \A a \in collection.points :
                 a.id = now[a.payload.metadata.path] + a.payload.metadata.chunk
        /\ (Clean(proc[p]) /\ prevRun.clean) =>
             LET olds == {<<Key(b), b.id>> : b \in startCollection.points}
                 keys == {Key(b) : b \in startCollection.points}
             IN  /\ Cardinality(keys) = Cardinality(olds)
                 /\ \A a \in collection.points :
                        Key(a) \in keys =>
                            (<<Key(a), a.id>> \in olds <=>
                               now[a.payload.metadata.path]
                                 = before[a.payload.metadata.path])

\* C7 witness: after a clean run a file was changed, and the next clean run
\* gave a chunk of another file an id other than the one it had.
C7_Witness ==
    \E p \in Procs :
        /\ Clean(proc[p])
        /\ prevRun.clean
        /\ prevRun.tree # startTree
        /\ \E a \in collection.points, b \in startCollection.points :
               SameChunk(a, b) /\ a.id # b.id

\* The batch of the first embedding or upsert call of the run that failed.
FirstFailedBatch(s) ==
    LET j == CHOOSE j \in FailedUploads(s) : \A h \in FailedUploads(s) : j <= h
    IN  s.calls[j].batch

\* The point the upload makes of the document at position n (from 0).
PointOf(s, n) ==
    [id |-> n,
     vector |-> [dim |-> VECTOR_SIZE, of |-> s.allDocuments[n + 1].pageContent],
     payload |-> [text |-> s.allDocuments[n + 1].pageContent,
                  metadata |-> s.allDocuments[n + 1].metadata]]

\* C8: once the embedding or the upsert call of batch k has failed, the
\* collection holds the points of batches 0..k-1 as they were upserted and no
\* point of batch k or of a later batch, and nothing is deleted afterwards.
C8_FailedBatchKeepsEarlierBatches ==
    \A p \in Procs :
        FailedUploads(proc[p]) # {} =>
            LET s == proc[p]
                k == FirstFailedBatch(s)
            IN  /\ collection.exists
                /\ collection.points = {PointOf(s, n) : n \in 0..(k * BATCH_SIZE - 1)}
                /\ \A d \in CallsOf(s, {"delete"}), f \in FailedUploads(s) : d < f

\* C8 witness: a call of the second batch failed, a third batch was still to
\* come, and the run has ended with the first batch in the collection.
C8_Witness ==
    \E p \in Procs :
        /\ proc[p].pc = "exited"
        /\ FailedUploads(proc[p]) # {}
        /\ FirstFailedBatch(proc[p]) = 1
        /\ Len(proc[p].allDocuments) > 2 * BATCH_SIZE
        /\ Cardinality(collection.points) = BATCH_SIZE

\* A failed call that the store did not cause by rejecting the vectors: a
\* failed embedding call, or a failed upsert of vectors of the right size.
Transient(s, j) ==
    /\ j \in FailedUploads(s)
    /\ s.calls[j].op = "upsert" => s.calls[j - 1].dim = VECTOR_SIZE

C10_NoUpsertOfWrongDimension ==
    \A p \in Procs :
        \A e \in CallsOf(proc[p], {"embed"}), u \in CallsOf(proc[p], {"upsert"}) :
            (proc[p].calls[e].ok /\ proc[p].calls[e].dim # VECTOR_SIZE) =>
                proc[p].calls[u].batch # proc[p].calls[e].batch

\* The run has scanned the tree and read every file it found.
ReadDone(s) ==
    /\ s.pc \in {"upload", "embed", "upsert", "syncEnd", "exited"}
    /\ s.logged \cap {"keyError", "resetError", "syncError"} = {}
    /\ s.files = GetFiles(startTree)
    /\ s.fileIdx = Len(s.files)

\* C11: a non-dry run whose scan finds no file makes no embedding and no
\* upsert call, leaves the collection it created empty, and ends with exit
\* code 0 after reporting the upload and the sync as completed.
C11_EmptyScanCompletes ==
    \A p \in Procs :
        (ResetSucceeded(proc[p]) /\ ReadDone(proc[p]) /\ proc[p].files = << >>) =>
            LET s == proc[p]
            IN  /\ s.allDocuments = << >>
                /\ CallsOf(s, Upload) = {}
                /\ collection = [exists |-> TRUE, points |-> {}]
                /\ s.pc = "exited" =>
                       /\ s.exitCode = 0
                       /\ {"uploadCompleted", "syncCompleted"} \subseteq s.logged
                       /\ "uploadError" \notin s.logged

\* C11 witness: a non-dry run over an empty tree has ended, on a collection
\* that held points before.
C11_Witness ==
    \E p \in Procs :
        /\ ResetSucceeded(proc[p])
        /\ ReadDone(proc[p])
        /\ proc[p].files = << >>
        /\ proc[p].pc = "exited"
        /\ startCollection.points # {}

\* C12: the upload calls of a run come strictly in turn: the first is the
\* embedding of batch 0, every upsert directly follows the answered embedding
\* of its own batch, every later embedding directly follows the successful
\* upsert of the batch before it, and the vectors of a batch are held only
\* while its upsert is awaited.
C12_OneBatchAtATime ==
    \A p \in Procs :
        LET s == proc[p]
        IN  /\ \A j \in CallsOf(s, {"embed"}) :
                   \/ s.calls[j].batch = 0 /\ CallsOf(s, Upload) \cap (1..(j - 1)) = {}
                   \/ /\ j > 1
                      /\ s.calls[j - 1] = Call("upsert", s.calls[j].batch - 1, TRUE, 0)
            /\ \A j \in CallsOf(s, {"upsert"}) :
                   /\ j > 1
                   /\ s.calls[j - 1].op = "embed"
                   /\ s.calls[j - 1].ok
                   /\ s.calls[j - 1].batch = s.calls[j].batch
            /\ s.embeddingResults # << >> => s.pc = "upsert"

\* C12 witness: the third batch has been upserted.
C12_Witness ==
    \E p \in Procs :
        /\ Len(proc[p].calls) > 0
        /\ proc[p].calls[Len(proc[p].calls)] = Call("upsert", 2, TRUE, 0)

\* The batches the upload loop cuts out of documents, from index i on.
RECURSIVE Batches(_, _)
Batches(documents, i) ==
    IF LoopTest(documents, i)
      THEN <<Batch(documents, i)>> \o Batches(documents, LoopStep(i))
      ELSE << >>

RECURSIVE Flatten(_)
Flatten(seqs) == IF seqs = << >> THEN << >> ELSE Head(seqs) \o Flatten(Tail(seqs))

\* C13: the batches of a chunk list, taken in order, make up the list again
\* (every chunk in one batch, order kept); no batch is empty or longer than
\* 100 and every batch but the last holds 100; the loop embeds exactly these
\* batches.
C13_BatchesPartitionTheChunks ==
    \A p \in Procs :
        LET s  == proc[p]
            bs == Batches(s.allDocuments, 0)
        IN  /\ Flatten(bs) = s.allDocuments
            /\ \A k \in 1..Len(bs) :
                   /\ Len(bs[k]) >= 1
                   /\ Len(bs[k]) <= BATCH_SIZE
                   /\ k < Len(bs) => Len(bs[k]) = BATCH_SIZE
            /\ s.pc \in {"embed", "upsert"} =>
                   /\ s.i \div BATCH_SIZE + 1 \in 1..Len(bs)
                   /\ Batch(s.allDocuments, s.i) = bs[s.i \div BATCH_SIZE + 1]
            /\ Clean(s) => Cardinality(CallsOf(s, {"upsert"})) = Len(bs)

\* C13 witness: a clean run has uploaded 201 chunks in three batches.
C13_Witness ==
    \E p \in Procs :
        /\ Clean(proc[p])
        /\ Len(proc[p].allDocuments) = 2 * BATCH_SIZE + 1
        /\ Cardinality(CallsOf(proc[p], {"upsert"})) = 3

\* Positions in documents of the chunks of path.
DocsOf(documents, path) ==
    {k \in 1..Len(documents) : documents[k].metadata.path = path}

\* C14: a file that was found but cannot be read yields no chunk and does not
\* stop the run: every readable file still yields all its chunks, and a clean
\* run stores all of them.
C14_UnreadableFileIsSkipped ==
    \A p \in Procs :
        ReadDone(proc[p]) =>
            \A path \in Paths :
                LET s == proc[p]
                    n == IF startTree[path].readable THEN startTree[path].content ELSE 0
                IN  /\ Cardinality(DocsOf(s.allDocuments, path)) = n
                    /\ Clean(s) =>
                         Cardinality({pt \in collection.points :
                                        pt.payload.metadata.path = path}) = n

\* C14 witness: a clean run met an unreadable first file and stored the chunks
\* of the second.
C14_Witness ==
    \E p \in Procs :
        /\ Clean(proc[p])
        /\ ReadDone(proc[p])
        /\ MaxFiles >= 2
        /\ startTree[1] = Unreadable
        /\ startTree[2].readable
        /\ collection.points # {}

\* C15 as claimed: a dry run that has come out of resetCollection() has
\* issued the list-collections call.
C15_DryRunListsCollections ==
    \A p \in Procs :
        (proc[p].DRY_RUN /\ "wouldReset" \in proc[p].logged) =>
            CallsOf(proc[p], {"list"}) # {}

\* C15 as amended: a dry run makes no remote call at all, the
\* list-collections call included; it logs what it would do and goes on to
\* scan and read the files.
C15_DryRunMakesNoRemoteCall ==
    \A p \in Procs :
        proc[p].DRY_RUN =>
            /\ proc[p].calls = << >>
            /\ (proc[p].pc \in {"scan", "read", "upload", "syncEnd"}
                  \/ ReadDone(proc[p])) => "wouldReset" \in proc[p].logged

\* C15 witness: a dry run has ended against an existing collection.
C15_Witness ==
    \E p \in Procs :
        /\ proc[p].DRY_RUN
        /\ proc[p].pc = "exited"
        /\ proc[p].exitCode = 0
        /\ startCollection.exists
        /\ proc[p].allDocuments # << >>

\* C17: after a clean run the points of every path carry the chunk indices
\* 0..n-1, each once, and all carry totalChunks = n, n being the number of
\* points of that path.
C17_ChunksOfAPathAreComplete ==
    \A p \in Procs :
        Clean(proc[p]) =>
            \A path \in Paths :
                LET P == {pt \in collection.points : pt.payload.metadata.path = path}
                    n == Cardinality(P)
                IN  /\ {pt.payload.metadata.chunk : pt \in P} = 0..(n - 1)
                    /\ \A pt \in P : pt.payload.metadata.totalChunks = n

\* C17 witness: a clean run has stored the chunks of two files of different
\* lengths.
C17_Witness ==
    \E p \in Procs :
        /\ Clean(proc[p])
        /\ \E a, b \in collection.points :
               /\ a.payload.metadata.path # b.payload.metadata.path
               /\ a.payload.metadata.totalChunks # b.payload.metadata.totalChunks

\* The calls of resetCollection() that failed.
FailedResets(s) == {j \in CallsOf(s, {"list", "delete", "create"}) : ~s.calls[j].ok}

\* C18: when list-collections, delete or create fails, that call is the last
\* remote call of the run, which has ended with exit code 1 without scanning,
\* embedding or upserting; and when the create failed after a successful
\* delete, the collection is gone.
C18_FailedResetEndsTheRun ==
    \A p \in Procs :
        FailedResets(proc[p]) # {} =>
            LET s    == proc[p]
                last == s.calls[Len(s.calls)]
            IN  /\ FailedResets(s) = {Len(s.calls)}
                /\ s.pc = "exited"
                /\ s.exitCode = 1
                /\ CallsOf(s, Upload) = {}
                /\ s.files = << >> /\ s.allDocuments = << >>
                /\ (last.op = "create"
                      /\ \E d \in CallsOf(s, {"delete"}) : s.calls[d].ok) =>
                       collection = [exists |-> FALSE, points |-> {}]

\* C18 witness: the create failed after the delete of a collection that held
\* points.
C18_Witness ==
    \E p \in Procs :
        /\ FailedResets(proc[p]) # {}
        /\ proc[p].calls[Len(proc[p].calls)].op = "create"
        /\ startCollection.points # {}
        /\ ~collection.exists

\* C19: from the reset on, count is the number of points in the collection
\* and the ids are 0..count-1 without collision; after a clean run over N
\* chunks the collection holds, for every k in 0..N-1, the point with id k,
\* the text and metadata of the k-th chunk and the vector returned for that
\* text, and nothing else.
C19_CountIsNumberOfPoints ==
    \A p \in Procs :
        ResetSucceeded(proc[p]) =>
            LET s == proc[p]
            IN  /\ s.count = Cardinality(collection.points)
                /\ {pt.id : pt \in collection.points} = 0..(s.count - 1)
                /\ s.pc \in {"embed", "upsert"} => s.count = s.i
                /\ Clean(s) =>
                       collection.points =
                           {PointOf(s, n) : n \in 0..(Len(s.allDocuments) - 1)}

\* C19 witness: a clean run has stored 202 chunks.
C19_Witness ==
    \E p \in Procs :
        /\ Clean(proc[p])
        /\ proc[p].count = 2 * BATCH_SIZE + 2
        /\ Cardinality(collection.points) = proc[p].count

\* ceil(n / BATCH_SIZE)
CeilBatches(n) == (n + BATCH_SIZE - 1) \div BATCH_SIZE

\* C20: every run that has started ends, with an exit code; and a run over N
\* chunks in which no call failed has made exactly ceil(N/100) embedding
\* calls and ceil(N/100) upsert calls.
C20_RunEndsAfterCeilBatches ==
    /\ \A p \in Procs : (proc[p].pc # "idle") ~> (proc[p].pc = "exited")
    /\ [](\A p \in Procs :
            Clean(proc[p]) =>
              LET s == proc[p]
                  n == CeilBatches(Len(s.allDocuments))
              IN  /\ Cardinality(CallsOf(s, {"embed"})) = n
                  /\ Cardinality(CallsOf(s, {"upsert"})) = n
                  /\ s.exitCode = 0)

\* C20 witness: a run over 201 chunks has ended after three embedding calls
\* and three upserts.
C20_Witness ==
    \E p \in Procs :
        /\ Clean(proc[p])
        /\ Len(proc[p].allDocuments) = 2 * BATCH_SIZE + 1
        /\ Cardinality(CallsOf(proc[p], {"embed"})) = 3
        /\ Cardinality(CallsOf(proc[p], {"upsert"})) = 3

\* The chunks of the batches whose upsert the store accepted, as offsets
\* into allDocuments.
Upserted(s) ==
    UNION { {n \in 0..(Len(s.allDocuments) - 1) : n \div BATCH_SIZE = s.calls[j].batch}
            : j \in {u \in CallsOf(s, {"upsert"}) : s.calls[u].ok} }

\* Some other run than q has deleted the collection.
DeletedByOther(q) ==
    \E p \in Procs \ {q} : \E d \in CallsOf(proc[p], {"delete"}) : proc[p].calls[d].ok

\* C16: the collection a run has created is gone, or a point the run has
\* upserted is missing from it, only when another run has deleted the
\* collection in the meantime; the script itself never takes back what it
\* stored.
C16_OnlyAnotherRunTakesPointsAway ==
    \A q \in Procs :
        ResetSucceeded(proc[q]) =>
            \/ DeletedByOther(q)
            \/ /\ collection.exists
               /\ \A n \in Upserted(proc[q]) : PointOf(proc[q], n) \in collection.points

\* C16 witness: two full rebuilds have run at the same time and both have
\* ended; run q ended clean, yet the reset of run p removed the first batch
\* q had upserted, and p's own upload failed, so that the collection holds
\* neither all the chunks (what q alone leaves) nor nothing (what p alone
\* leaves).
C16_Witness ==
    \E q, p \in Procs :
        /\ q # p
        /\ Clean(proc[q])
        /\ proc[p].pc = "exited"
        /\ ResetSucceeded(proc[p])
        /\ \E d \in CallsOf(proc[p], {"delete"}) : proc[p].calls[d].ok
        /\ \A u \in CallsOf(proc[p], {"upsert"}) : ~proc[p].calls[u].ok
        /\ 0 \in Upserted(proc[q])
        /\ PointOf(proc[q], 0) \notin collection.points
        /\ collection.points # {}
        /\ collection.points # {PointOf(proc[q], n) : n \in 0..(Len(proc[q].allDocuments) - 1)}

====
